---- MODULE Spec2Model ----
(***************************************************************************)
(* A model of textacy/spacy_utils.py: the token classifiers, the text      *)
(* normaliser, the span resolvers, the subject/object extractors with      *)
(* their conjunct extension, and merge_spans.                              *)
(*                                                                         *)
(* A document is a sequence of token records.  The token at sequence       *)
(* position p has document index token.i = p - 1.  A token's `id` is its   *)
(* character offset (token.idx): every original token is one character     *)
(* wide, so the original token i has id i, and a merged token keeps the    *)
(* id of the first token it covers and has the summed length.  `head` is   *)
(* the id of the token's syntactic head; a root is its own head.           *)
(***************************************************************************)
EXTENDS Integers, Sequences, FiniteSets, TLC

VARIABLES
    doc,         \* the document: a sequence of token records
    is_tagged,   \* doc.is_tagged
    is_parsed,   \* doc.is_parsed
    SUBJ_DEPS,   \* configured label sets (imported configuration)
    OBJ_DEPS,
    AUX_DEPS,
    pc,          \* position of the running call: "idle" between calls
    result,      \* what the last call returned or raised
    subjs,       \* get_subjects_of_verb's list while it is extended
    objs,        \* get_objects_of_verb's list while it is extended
    scan,        \* how many elements of subjs/objs the generator has visited
    spans,       \* merge_spans' argument: a sequence of span views
    consumed,    \* how many spans the generator has turned into tuples
    span_tuple,  \* the tuple the generator yielded last
    doc0,        \* history: the document when merge_spans was called
    captures     \* history: per tuple, how many merges preceded its capture

vars == <<doc, is_tagged, is_parsed, SUBJ_DEPS, OBJ_DEPS, AUX_DEPS, pc, result,
          subjs, objs, scan, spans, consumed, span_tuple, doc0, captures>>

docvars == <<doc, is_tagged, is_parsed>>
cfgvars == <<SUBJ_DEPS, OBJ_DEPS, AUX_DEPS>>
extvars == <<subjs, objs, scan>>
mrgvars == <<spans, consumed, span_tuple, doc0, captures>>

----------------------------------------------------------------------------
(* Bounds of the model *)

\* tokens of a document given to the span resolvers
SpanDocLen == 4
\* tokens of a document given to get_subjects_of_verb
SubjDocLen == 4
\* tokens of a document given to either extractor
ExtDocLen == 5
\* tokens of a document given to merge_spans
MergeDocLen == 5
\* tokens of a document on which every operation is called
ReadDocLen == 2

----------------------------------------------------------------------------
(* Sequences *)

SortedSeq(S) ==
    [i \in 1..Cardinality(S) |->
        CHOOSE x \in S : Cardinality({y \in S : y < x}) = i - 1]

Reverse(s) == [i \in 1..Len(s) |-> s[Len(s) + 1 - i]]

Range(s) == {s[i] : i \in 1..Len(s)}

RECURSIVE Concat(_)
Concat(ss) == IF ss = <<>> THEN <<>> ELSE Head(ss) \o Concat(Tail(ss))

----------------------------------------------------------------------------
(* The token and document accessors the code reads *)

\* token.i of the token at sequence position p
Idx(p) == p - 1

\* token.lefts: the children left of the token, in document order
lefts(d, p) == SortedSeq({q \in 1..(p - 1) : d[q].head = d[p].id})

\* token.rights: the children right of the token, in document order
rights(d, p) == SortedSeq({q \in (p + 1)..Len(d) : d[q].head = d[p].id})

\* token.children: lefts then rights
children(d, p) == lefts(d, p) \o rights(d, p)

\* itertools.takewhile(lambda x: x.dep_ in labels, s): the longest prefix of s
\* whose tokens all carry a label of `labels`
takewhile_dep(d, s, labels) ==
    LET bad == {i \in 1..Len(s) : d[s[i]].dep \notin labels}
        stop == IF bad = {} THEN Len(s) + 1
                ELSE CHOOSE m \in bad : \A o \in bad : m <= o
    IN  SubSeq(s, 1, stop - 1)

----------------------------------------------------------------------------
(* Results of a call *)

Returned(op, arg, v) == [op |-> op, arg |-> arg, kind |-> "return", val |-> v]
Raised(op, arg, e) == [op |-> op, arg |-> arg, kind |-> "raise", val |-> e]
NoResult == [op |-> "none", arg |-> 0, kind |-> "none", val |-> 0]

----------------------------------------------------------------------------
(* Span Boundary Resolver *)

\* a slip: the left children walked from the farthest, not from the nearest
compound_noun_unreversed(d, p) ==
    LET min_i == Idx(p) - Len(takewhile_dep(d, lefts(d, p), {"compound"}))
    IN  <<min_i, Idx(p)>>

get_span_for_compound_noun(d, p) ==
    LET min_i == Idx(p) - Len(takewhile_dep(d, Reverse(lefts(d, p)), {"compound"}))
    IN  <<min_i, Idx(p)>>

\* a slip: the right-side count taken over the left children again
verb_auxiliaries_lefts_twice(d, aux, p) ==
    LET min_i == Idx(p) - Len(takewhile_dep(d, Reverse(lefts(d, p)), aux))
        max_i == Idx(p) + Len(takewhile_dep(d, Reverse(lefts(d, p)), aux))
    IN  <<min_i, max_i>>

get_span_for_verb_auxiliaries(d, aux, p) ==
    LET min_i == Idx(p) - Len(takewhile_dep(d, Reverse(lefts(d, p)), aux))
        max_i == Idx(p) + Len(takewhile_dep(d, rights(d, p), aux))
    IN  <<min_i, max_i>>

----------------------------------------------------------------------------
(* Documents *)

\* the head functions over n tokens that are forests: following heads from
\* any token reaches a root (a token that is its own head)
RECURSIVE ReachesRoot(_, _, _)
ReachesRoot(h, i, fuel) ==
    IF h[i] = i THEN TRUE
    ELSE IF fuel = 0 THEN FALSE
    ELSE ReachesRoot(h, h[i], fuel - 1)

Forests(n) ==
    {h \in [0..(n - 1) -> 0..(n - 1)] : \A i \in 0..(n - 1) : ReachesRoot(h, i, n)}

\* a parsed but lexically plain token
PlainToken(i, h, dep) ==
    [id |-> i, len |-> 1, text |-> <<"w">>, lemma |-> <<"w">>, lower |-> <<"w">>,
     pos |-> "X", tag |-> "XX", dep |-> dep, head |-> h, ent |-> ""]

\* d is a parsed document of n tokens: a root is labelled ROOT, every other
\* token carries one of `labels`
IsPlainDoc(d, n, labels) ==
    \E h \in Forests(n) :
        \E dl \in [{i \in 0..(n - 1) : h[i] # i} -> labels] :
            d = [p \in 1..n |->
                    PlainToken(p - 1, h[p - 1],
                               IF h[p - 1] = p - 1 THEN "ROOT" ELSE dl[p - 1])]

----------------------------------------------------------------------------
(* Specification of the span resolvers *)

SpanLabels == {"compound", "aux", "det"}

SpanInit ==
    /\ IsPlainDoc(doc, SpanDocLen, SpanLabels)
    /\ is_tagged = TRUE
    /\ is_parsed = TRUE
    /\ SUBJ_DEPS = {"nsubj"}
    /\ OBJ_DEPS = {"dobj"}
    /\ AUX_DEPS = {"aux", "auxpass", "neg"}
    /\ pc = "idle"
    /\ result = NoResult
    /\ subjs = <<>>
    /\ objs = <<>>
    /\ scan = 0
    /\ spans = <<>>
    /\ consumed = 0
    /\ span_tuple = <<>>
    /\ doc0 = <<>>
    /\ captures = <<>>

CompoundNounSpan ==
    /\ pc = "idle"
    /\ result = NoResult
    /\ \E p \in 1..Len(doc) :
          result' = Returned("get_span_for_compound_noun", Idx(p),
                             get_span_for_compound_noun(doc, p))
    /\ UNCHANGED <<docvars, cfgvars, pc, extvars, mrgvars>>

VerbAuxiliarySpan ==
    /\ pc = "idle"
    /\ result = NoResult
    /\ \E p \in 1..Len(doc) :
          result' = Returned("get_span_for_verb_auxiliaries", Idx(p),
                             get_span_for_verb_auxiliaries(doc, AUX_DEPS, p))
    /\ UNCHANGED <<docvars, cfgvars, pc, extvars, mrgvars>>

SpanNext == CompoundNounSpan \/ VerbAuxiliarySpan

SpecSpan == SpanInit /\ [][SpanNext]_vars

----------------------------------------------------------------------------
(* Claims about the span resolvers, stated without the resolvers' helpers *)

\* the positions of the children of the token at p that lie left of it
LeftChildSet(d, p) == {q \in 1..(p - 1) : d[q].head = d[p].id}

\* the j-th nearest left child of the token at p (j = 1 is the nearest)
NearestLeft(d, p, j) ==
    CHOOSE q \in LeftChildSet(d, p) :
        Cardinality({r \in LeftChildSet(d, p) : r > q}) = j - 1

\* the number of consecutive left children labelled 'compound', counted from
\* the nearest and stopping at the first left child with another label
CompoundRun(d, p) ==
    CHOOSE k \in 0..Cardinality(LeftChildSet(d, p)) :
        /\ \A j \in 1..k : d[NearestLeft(d, p, j)].dep = "compound"
        /\ \/ k = Cardinality(LeftChildSet(d, p))
           \/ d[NearestLeft(d, p, k + 1)].dep # "compound"

C10_SpansInsideDocument ==
    /\ result.op = "get_span_for_compound_noun" =>
          /\ 0 <= result.val[1]
          /\ result.val[1] <= result.arg
          /\ result.val[2] = result.arg
    /\ result.op = "get_span_for_verb_auxiliaries" =>
          /\ 0 <= result.val[1]
          /\ result.val[1] <= result.arg
          /\ result.arg <= result.val[2]
          /\ result.val[2] <= Len(doc) - 1

C10_Witness ==
    /\ result.op = "get_span_for_verb_auxiliaries"
    /\ result.val[1] = 0
    /\ result.val[1] < result.arg
    /\ result.arg < result.val[2]
    /\ result.val[2] = Len(doc) - 1

\* C6: (a) a verb directly preceded by three tokens that are its only left
\* children, all labelled in AUX_DEPS, and with no auxiliary on its right,
\* gets (verb.index - 3, verb.index); (b) whenever a token whose label is not
\* in AUX_DEPS stands between two left auxiliaries of the verb, the returned
\* minIndex is greater than that token's index.
C6_VerbAuxiliarySpan ==
    result.op = "get_span_for_verb_auxiliaries" =>
        LET p == result.arg + 1
            IsAux(q) == /\ doc[q].head = doc[p].id
                        /\ q # p
                        /\ doc[q].dep \in AUX_DEPS
        IN  /\ ( /\ p >= 4
                 /\ LeftChildSet(doc, p) = {p - 3, p - 2, p - 1}
                 /\ \A q \in LeftChildSet(doc, p) : IsAux(q)
                 /\ \A q \in (p + 1)..Len(doc) : ~IsAux(q) )
               => result.val = <<result.arg - 3, result.arg>>
            /\ \A a \in 1..(p - 1), x \in 1..(p - 1), b \in 1..(p - 1) :
                 ( /\ a < x
                   /\ x < b
                   /\ IsAux(a)
                   /\ IsAux(b)
                   /\ doc[x].dep \notin AUX_DEPS )
                 => result.val[1] > Idx(x)

----------------------------------------------------------------------------
(* Dependency Extractor *)

\* a slip: every child labelled conj, not only the right children
get_conjuncts_of_children(d, p) ==
    SelectSeq(children(d, p), LAMBDA q : d[q].dep = "conj")

_get_conjuncts(d, p) ==
    SelectSeq(rights(d, p), LAMBDA q : d[q].dep = "conj")

\* subjs = [tok for tok in verb.lefts if tok.dep_ in SUBJ_DEPS]
subject_seeds(d, sd, v) ==
    SelectSeq(lefts(d, v), LAMBDA q : d[q].dep \in sd)

\* objs = [tok for tok in verb.rights if tok.dep_ in OBJ_DEPS], then
\* objs.extend(tok for tok in verb.rights if tok.dep_ == 'xcomp')
object_seeds(d, od, v) ==
    SelectSeq(rights(d, v), LAMBDA q : d[q].dep \in od)
        \o SelectSeq(rights(d, v), LAMBDA q : d[q].dep = "xcomp")

\* list.extend(tok for x in list for tok in _get_conjuncts(x)): the generator
\* walks the very list that extend appends to.  One step of it: the outer loop
\* takes the next element, and its conjuncts are appended.
extend_step(d, list, n) == list \o _get_conjuncts(d, list[n + 1])

\* the token indices of a list of tokens
Indices(list) == [j \in 1..Len(list) |-> Idx(list[j])]

subjects_call ==
    /\ pc = "idle"
    /\ result = NoResult
    /\ \E v \in 1..Len(doc) :
          /\ subjs' = subject_seeds(doc, SUBJ_DEPS, v)
          /\ result' = [op |-> "get_subjects_of_verb", arg |-> Idx(v),
                        kind |-> "running", val |-> 0]
    /\ scan' = 0
    /\ pc' = "subjs_extend"
    /\ UNCHANGED <<docvars, cfgvars, objs, mrgvars>>

subjects_extend ==
    /\ pc = "subjs_extend"
    /\ scan < Len(subjs)
    /\ subjs' = extend_step(doc, subjs, scan)
    /\ scan' = scan + 1
    /\ UNCHANGED <<docvars, cfgvars, pc, result, objs, mrgvars>>

subjects_return ==
    /\ pc = "subjs_extend"
    /\ scan >= Len(subjs)
    /\ result' = Returned("get_subjects_of_verb", result.arg, Indices(subjs))
    /\ pc' = "idle"
    /\ UNCHANGED <<docvars, cfgvars, extvars, mrgvars>>

objects_call ==
    /\ pc = "idle"
    /\ result = NoResult
    /\ \E v \in 1..Len(doc) :
          /\ objs' = object_seeds(doc, OBJ_DEPS, v)
          /\ result' = [op |-> "get_objects_of_verb", arg |-> Idx(v),
                        kind |-> "running", val |-> 0]
    /\ scan' = 0
    /\ pc' = "objs_extend"
    /\ UNCHANGED <<docvars, cfgvars, subjs, mrgvars>>

objects_extend ==
    /\ pc = "objs_extend"
    /\ scan < Len(objs)
    /\ objs' = extend_step(doc, objs, scan)
    /\ scan' = scan + 1
    /\ UNCHANGED <<docvars, cfgvars, pc, result, subjs, mrgvars>>

objects_return ==
    /\ pc = "objs_extend"
    /\ scan >= Len(objs)
    /\ result' = Returned("get_objects_of_verb", result.arg, Indices(objs))
    /\ pc' = "idle"
    /\ UNCHANGED <<docvars, cfgvars, extvars, mrgvars>>

----------------------------------------------------------------------------
(* Specification of get_subjects_of_verb *)

SubjLabels == {"nsubj", "conj", "det"}

SubjInit ==
    /\ IsPlainDoc(doc, SubjDocLen, SubjLabels)
    /\ is_tagged = TRUE
    /\ is_parsed = TRUE
    /\ SUBJ_DEPS \in {{"nsubj", "nsubjpass"}, {"nsubj", "conj"}}
    /\ OBJ_DEPS = {"dobj"}
    /\ AUX_DEPS = {"aux", "auxpass", "neg"}
    /\ pc = "idle"
    /\ result = NoResult
    /\ subjs = <<>>
    /\ objs = <<>>
    /\ scan = 0
    /\ spans = <<>>
    /\ consumed = 0
    /\ span_tuple = <<>>
    /\ doc0 = <<>>
    /\ captures = <<>>

SubjNext == subjects_call \/ subjects_extend \/ subjects_return

SpecSubj == SubjInit /\ [][SubjNext]_vars

----------------------------------------------------------------------------
(* Specification of both extractors *)

ExtLabels == {"nsubj", "dobj", "xcomp", "conj"}

ExtInit ==
    /\ IsPlainDoc(doc, ExtDocLen, ExtLabels)
    /\ is_tagged = TRUE
    /\ is_parsed = TRUE
    /\ SUBJ_DEPS = {"nsubj"}
    /\ OBJ_DEPS \in {{"dobj", "attr"}, {"dobj", "xcomp"}}
    /\ AUX_DEPS = {"aux", "auxpass", "neg"}
    /\ pc = "idle"
    /\ result = NoResult
    /\ subjs = <<>>
    /\ objs = <<>>
    /\ scan = 0
    /\ spans = <<>>
    /\ consumed = 0
    /\ span_tuple = <<>>
    /\ doc0 = <<>>
    /\ captures = <<>>

ExtNext ==
    \/ subjects_call
    \/ subjects_extend
    \/ subjects_return
    \/ objects_call
    \/ objects_extend
    \/ objects_return

\* a started call runs to its end: the code is synchronous
ExtRun == subjects_extend \/ subjects_return \/ objects_extend \/ objects_return

SpecExtract == ExtInit /\ [][ExtNext]_vars /\ WF_vars(ExtRun)

----------------------------------------------------------------------------
(* Claims about the extractors *)

\* the right children labelled conj of the token at position q
ConjOf(d, q) == {r \in (q + 1)..Len(d) : d[r].head = d[q].id /\ d[r].dep = "conj"}

\* the least set of positions that contains `seeds` and is closed under
\* 'right child labelled conj'
ConjClosure(d, seeds) ==
    {t \in 1..Len(d) :
        \A S \in SUBSET (1..Len(d)) :
            (seeds \subseteq S /\ \A q \in S : ConjOf(d, q) \subseteq S) => t \in S}

SubjSeedSet(d, sd, v) ==
    {q \in 1..(v - 1) : d[q].head = d[v].id /\ d[q].dep \in sd}

ObjSeedSet(d, od, v) ==
    {q \in (v + 1)..Len(d) :
        d[q].head = d[v].id /\ (d[q].dep \in od \/ d[q].dep = "xcomp")}

IndexSet(S) == {Idx(q) : q \in S}

\* C3: subjectsOfVerb(verb) returns exactly the least set that contains the
\* verb's SUBJ_DEPS-labelled left children and is closed under 'right child
\* labelled conj', at any depth of chaining, the seeds first in document order.
C3_SubjectsAreConjClosure ==
    (result.op = "get_subjects_of_verb" /\ result.kind = "return") =>
        LET v == result.arg + 1
            seeds == SubjSeedSet(doc, SUBJ_DEPS, v)
        IN  /\ Range(result.val) = IndexSet(ConjClosure(doc, seeds))
            /\ Len(result.val) >= Cardinality(seeds)
            /\ SubSeq(result.val, 1, Cardinality(seeds)) = SortedSeq(IndexSet(seeds))

\* 'Ann, Bob, and Carl left': Bob conj of Ann, Carl conj of Bob
C3_Witness ==
    /\ result.op = "get_subjects_of_verb"
    /\ result.kind = "return"
    /\ result.arg = 3
    /\ doc[1].head = 3 /\ doc[1].dep = "nsubj"
    /\ doc[2].head = 0 /\ doc[2].dep = "conj"
    /\ doc[3].head = 1 /\ doc[3].dep = "conj"
    /\ result.val = <<0, 1, 2>>

\* C4: objectsOfVerb(verb) returns each token of the conj-closure of its seed
\* set (right children labelled in OBJ_DEPS or xcomp) exactly once, and no
\* other token, under every configuration of OBJ_DEPS.
C4_ObjectsExactlyOnce ==
    (result.op = "get_objects_of_verb" /\ result.kind = "return") =>
        LET v == result.arg + 1
            closure == IndexSet(ConjClosure(doc, ObjSeedSet(doc, OBJ_DEPS, v)))
        IN  /\ Range(result.val) = closure
            /\ Len(result.val) = Cardinality(closure)

\* C9: on every finite document the conjunct closure of both extractors
\* terminates: while unscanned elements remain the scan goes on (it never
\* runs past the list), and it appends at most as many tokens as the
\* document contains.
C9_ClosureTerminates ==
    /\ pc = "subjs_extend" =>
          /\ scan <= Len(subjs)
          /\ ENABLED (subjects_extend \/ subjects_return)
          /\ Len(subjs) - Len(subject_seeds(doc, SUBJ_DEPS, result.arg + 1))
                <= Len(doc)
    /\ pc = "objs_extend" =>
          /\ scan <= Len(objs)
          /\ ENABLED (objects_extend \/ objects_return)
          /\ Len(objs) - Len(object_seeds(doc, OBJ_DEPS, result.arg + 1))
                <= Len(doc)

----------------------------------------------------------------------------
(* Span Merger *)

\* A span is a view into the document: it holds the token indices
\* [start, end) and a label, and reads its tokens from the document as the
\* document is when the span is read.
SpanView(a, b, l) == [start |-> a, end |-> b, label |-> l]

\* the sequence positions a span covers in d
SpanPositions(sp) == (sp.start + 1)..sp.end

\* the number of head links from the token at position q up to a root, at
\* most `fuel` of them
RECURSIVE WordsToRoot(_, _, _)
WordsToRoot(d, q, fuel) ==
    IF d[q].head = d[q].id \/ fuel = 0 THEN 0
    ELSE 1 + WordsToRoot(d, CHOOSE r \in 1..Len(d) : d[r].id = d[q].head, fuel - 1)

\* span.root: a sentence root inside the span if there is one; otherwise,
\* among the tokens whose head lies outside the span, the first with the
\* shortest path to its root; the span's first token when there is none
span_root(d, sp) ==
    LET ids == {d[q].id : q \in SpanPositions(sp)}
        roots == {q \in SpanPositions(sp) : d[q].head = d[q].id}
        tops == {q \in SpanPositions(sp) : d[q].head \notin ids}
        best == {q \in tops : \A r \in tops :
                    WordsToRoot(d, q, Len(d)) <= WordsToRoot(d, r, Len(d))}
    IN  IF roots # {} THEN CHOOSE q \in roots : \A r \in roots : q <= r
        ELSE IF tops = {} THEN sp.start + 1
        ELSE CHOOSE q \in best : \A r \in best : q <= r

\* span.text: the covered tokens' texts, concatenated
span_text(d, sp) == Concat([j \in 1..(sp.end - sp.start) |-> d[sp.start + j].text])

\* span[0] and span[-1] are doc[span.start] and doc[span.end - 1]: reading
\* them past the end of the document raises IndexError
_span_to_tuple(d, sp) ==
    IF sp.start + 1 > Len(d) \/ sp.end > Len(d)
    THEN <<"IndexError">>
    ELSE LET start == d[sp.start + 1].id
             end == d[sp.end].id + d[sp.end].len
             tag == d[span_root(d, sp)].tag
             text == span_text(d, sp)
             label == sp.label
         IN  <<start, end, tag, text, label>>

\* doc.merge(start_idx, end_idx, tag, lemma, ent_type): the tokens between the
\* two character offsets become one token; nothing happens when an offset is
\* not a token boundary
doc_merge(d, t) ==
    LET from == {q \in 1..Len(d) : d[q].id = t[1]}
        upto == {q \in 1..Len(d) : d[q].id + d[q].len = t[2]}
    IN  IF from = {} \/ upto = {} THEN d
        ELSE LET s == CHOOSE q \in from : TRUE
                 e == CHOOSE q \in upto : TRUE
                 sp == SpanView(s - 1, e, t[5])
                 ids == {d[q].id : q \in s..e}
                 root == d[span_root(d, sp)]
                 merged == [id |-> t[1], len |-> t[2] - t[1],
                            text |-> span_text(d, sp), lemma |-> t[4],
                            lower |-> span_text(d, sp), pos |-> root.pos,
                            tag |-> t[3], dep |-> root.dep,
                            head |-> IF root.head \in ids THEN t[1] ELSE root.head,
                            ent |-> t[5]]
                 repoint(tok) == IF tok.head \in ids
                                 THEN [tok EXCEPT !.head = t[1]] ELSE tok
             IN  IF s > e THEN d
                 ELSE [q \in 1..(s - 1) |-> repoint(d[q])]
                        \o <<merged>>
                        \o [q \in 1..(Len(d) - e) |-> repoint(d[e + q])]

\* for span_tuple in (_span_to_tuple(span) for span in spans): the generator
\* is asked for its next tuple
merge_spans_call ==
    /\ pc = "idle"
    /\ result = NoResult
    /\ spans # <<>>
    /\ doc0' = doc
    /\ consumed' = 0
    /\ captures' = <<>>
    /\ result' = [op |-> "merge_spans", arg |-> 0, kind |-> "running", val |-> 0]
    /\ pc' = "next_tuple"
    /\ UNCHANGED <<docvars, cfgvars, extvars, spans, span_tuple>>

\* the generator computes the next span's tuple, now
merge_spans_next_tuple ==
    /\ pc = "next_tuple"
    /\ consumed < Len(spans)
    /\ LET t == _span_to_tuple(doc, spans[consumed + 1])
       IN  IF t = <<"IndexError">>
           THEN /\ result' = Raised("merge_spans", 0, "IndexError")
                /\ pc' = "idle"
                /\ UNCHANGED <<span_tuple, consumed, captures>>
           ELSE /\ span_tuple' = t
                /\ consumed' = consumed + 1
                /\ captures' = Append(captures, [tuple |-> t, merges_before |-> consumed])
                /\ pc' = "merge"
                /\ UNCHANGED result
    /\ UNCHANGED <<docvars, cfgvars, extvars, spans, doc0>>

\* doc.merge(*span_tuple)
merge_spans_merge ==
    /\ pc = "merge"
    /\ doc' = doc_merge(doc, span_tuple)
    /\ pc' = "next_tuple"
    /\ UNCHANGED <<is_tagged, is_parsed, cfgvars, result, extvars, mrgvars>>

merge_spans_return ==
    /\ pc = "next_tuple"
    /\ consumed >= Len(spans)
    /\ result' = Returned("merge_spans", 0, "None")
    /\ pc' = "idle"
    /\ UNCHANGED <<docvars, cfgvars, extvars, mrgvars>>

----------------------------------------------------------------------------
(* Specification of merge_spans *)

Words == <<"a", "b", "c", "d", "e", "f", "g">>
TagNames == <<"T0", "T1", "T2", "T3", "T4", "T5", "T6">>
EntLabels == {"ORG", "GPE"}

\* a token with a text and a tag of its own
NamedToken(i, h) ==
    [id |-> i, len |-> 1, text |-> <<Words[i + 1]>>, lemma |-> <<Words[i + 1]>>,
     lower |-> <<Words[i + 1]>>, pos |-> "X", tag |-> TagNames[i + 1],
     dep |-> IF h = i THEN "ROOT" ELSE "dep", head |-> h, ent |-> ""]

\* the non-empty token ranges [a, b) of a document of n tokens
Ranges(n) == {r \in (0..(n - 1)) \X (1..n) : r[1] < r[2]}

Disjoint(r, t) == r[2] <= t[1] \/ t[2] <= r[1]

\* the batches of one or two pairwise disjoint spans, in either order
IsBatch(b, n) ==
    \/ \E r \in Ranges(n), l \in EntLabels : b = <<SpanView(r[1], r[2], l)>>
    \/ \E r \in Ranges(n), t \in Ranges(n), l \in EntLabels, m \in EntLabels :
          /\ Disjoint(r, t)
          /\ b = <<SpanView(r[1], r[2], l), SpanView(t[1], t[2], m)>>

MergeInit ==
    /\ \E h \in Forests(MergeDocLen) :
          doc = [p \in 1..MergeDocLen |-> NamedToken(p - 1, h[p - 1])]
    /\ is_tagged = TRUE
    /\ is_parsed = TRUE
    /\ SUBJ_DEPS = {"nsubj"}
    /\ OBJ_DEPS = {"dobj"}
    /\ AUX_DEPS = {"aux", "auxpass", "neg"}
    /\ pc = "idle"
    /\ result = NoResult
    /\ subjs = <<>>
    /\ objs = <<>>
    /\ scan = 0
    /\ IsBatch(spans, MergeDocLen)
    /\ consumed = 0
    /\ span_tuple = <<>>
    /\ doc0 = <<>>
    /\ captures = <<>>

MergeNext ==
    \/ merge_spans_call
    \/ merge_spans_next_tuple
    \/ merge_spans_merge
    \/ merge_spans_return

SpecMerge == MergeInit /\ [][MergeNext]_vars

----------------------------------------------------------------------------
(* Claims about merge_spans *)

\* C1: with two or more spans, every span's (start, end, rootTag, text,
\* label) record is computed before the first mutation of the document.
C1_CaptureBeforeAnyMerge ==
    \A j \in 1..Len(captures) : captures[j].merges_before = 0

\* the sum over the spans of (span length - 1)
RECURSIVE Shrinkage(_)
Shrinkage(b) ==
    IF b = <<>> THEN 0
    ELSE (Head(b).end - Head(b).start - 1) + Shrinkage(Tail(b))

\* C2: after mergeSpans over pairwise disjoint spans given as token ranges of
\* the original document, the document has (original length - sum of (span
\* length - 1)) tokens, each span's original range is one token carrying the
\* text, root tag and label the span had in the original document, and the
\* uncovered tokens are kept in their order.
C2_MergedAsOfOriginal ==
    (result.op = "merge_spans" /\ result.kind # "running") =>
        /\ result.kind = "return"
        /\ Len(doc) = Len(doc0) - Shrinkage(spans)
        /\ \A j \in 1..Len(spans) :
              \E p \in 1..Len(doc) :
                  /\ doc[p].id = spans[j].start
                  /\ doc[p].len = spans[j].end - spans[j].start
                  /\ doc[p].text = span_text(doc0, spans[j])
                  /\ doc[p].lemma = span_text(doc0, spans[j])
                  /\ doc[p].tag = doc0[span_root(doc0, spans[j])].tag
                  /\ doc[p].ent = spans[j].label
        /\ \A i \in 1..Len(doc0) :
              (\A j \in 1..Len(spans) : i \notin SpanPositions(spans[j]))
                  => \E p \in 1..Len(doc) :
                        /\ doc[p].id = doc0[i].id
                        /\ doc[p].len = 1
                        /\ doc[p].text = doc0[i].text
                        /\ doc[p].tag = doc0[i].tag
        /\ \A p \in 1..(Len(doc) - 1) : doc[p].id < doc[p + 1].id

----------------------------------------------------------------------------
(* Token-Level Classifiers and Text Normalizer *)

Ret(v) == [kind |-> "return", val |-> v]
Raise(e) == [kind |-> "raise", val |-> e]

\* ds_tools.nlp.text_utils.is_acronym: an external classifier of texts
Acronyms == {<<"NASA">>}
is_acronym(text) == text \in Acronyms

is_plural_noun(d, tagged, p) ==
    IF tagged = FALSE THEN Raise("ValueError")
    ELSE Ret(IF d[p].pos = "NOUN" /\ d[p].lemma # d[p].lower THEN TRUE ELSE FALSE)

is_negated_verb(d, parsed, p) ==
    IF parsed = FALSE THEN Raise("ValueError")
    ELSE IF d[p].pos = "VERB" /\ \E c \in Range(children(d, p)) : d[c].dep = "neg"
         THEN Ret(TRUE)
         ELSE Ret(FALSE)

preserve_case(d, tagged, p) ==
    IF tagged = FALSE THEN Raise("ValueError")
    ELSE Ret(d[p].tag \in {"NNP", "NNPS"} \/ is_acronym(d[p].text))

\* token.text if preserve_case(token) else token.lemma_
normalized_token(d, tagged, p) ==
    LET keep == preserve_case(d, tagged, p)
    IN  IF keep.kind = "raise" THEN keep
        ELSE Ret(IF keep.val THEN d[p].text ELSE d[p].lemma)

\* x is a Token, a Span or something else; a string is a sequence of words,
\* and ' '.join concatenates
normalized_str(d, tagged, x) ==
    IF x.type = "Token" THEN normalized_token(d, tagged, x.p)
    ELSE IF x.type = "Span"
    THEN LET parts == [j \in 1..(x.end - x.start) |->
                          normalized_token(d, tagged, x.start + j)]
         IN  IF \E j \in 1..Len(parts) : parts[j].kind = "raise"
             THEN Raise("ValueError")
             ELSE Ret(Concat([j \in 1..Len(parts) |-> parts[j].val]))
    ELSE Raise("TypeError")

----------------------------------------------------------------------------
(* The extractors and merge_spans as whole calls *)

get_main_verbs_of_sent(d, sent) ==
    Indices(SelectSeq([j \in 1..(sent.end - sent.start) |-> sent.start + j],
                      LAMBDA q : d[q].pos = "VERB" /\ d[q].dep \notin {"aux", "auxpass"}))

\* the extension run until the generator is exhausted
RECURSIVE extend_all(_, _, _)
extend_all(d, list, n) ==
    IF n >= Len(list) THEN list ELSE extend_all(d, extend_step(d, list, n), n + 1)

get_subjects_of_verb(d, sd, v) == Indices(extend_all(d, subject_seeds(d, sd, v), 0))

get_objects_of_verb(d, od, v) == Indices(extend_all(d, object_seeds(d, od, v), 0))

\* the loop of merge_spans from its k-th span on
RECURSIVE merge_spans_from(_, _, _)
merge_spans_from(d, b, k) ==
    IF k >= Len(b) THEN [doc |-> d, out |-> Ret("None")]
    ELSE LET t == _span_to_tuple(d, b[k + 1])
         IN  IF t = <<"IndexError">> THEN [doc |-> d, out |-> Raise("IndexError")]
             ELSE merge_spans_from(doc_merge(d, t), b, k + 1)

merge_spans(b, d) == merge_spans_from(d, b, 0)

----------------------------------------------------------------------------
(* Specification of all operations on one document *)

\* the annotations a pipeline gives a token
Lexicon ==
    { [text |-> <<"dogs">>, lemma |-> <<"dog">>, lower |-> <<"dogs">>,
       pos |-> "NOUN", tag |-> "NNS", dep |-> "nsubj"],
      [text |-> <<"NASA">>, lemma |-> <<"nasa">>, lower |-> <<"nasa">>,
       pos |-> "NOUN", tag |-> "NNP", dep |-> "compound"],
      [text |-> <<"ran">>, lemma |-> <<"run">>, lower |-> <<"ran">>,
       pos |-> "VERB", tag |-> "VBD", dep |-> "conj"],
      [text |-> <<"not">>, lemma |-> <<"not">>, lower |-> <<"not">>,
       pos |-> "ADV", tag |-> "RB", dep |-> "neg"] }

\* a token as the pipeline leaves it: without the tagger it has no tag, part
\* of speech or lemma, without the parser it is its own head and has no label
PipelineToken(i, lex, h, tagged, parsed) ==
    [id |-> i, len |-> 1, text |-> lex.text, lower |-> lex.lower,
     lemma |-> IF tagged THEN lex.lemma ELSE <<>>,
     pos |-> IF tagged THEN lex.pos ELSE "",
     tag |-> IF tagged THEN lex.tag ELSE "",
     dep |-> IF ~parsed THEN "" ELSE IF h = i THEN "ROOT" ELSE lex.dep,
     head |-> IF parsed THEN h ELSE i,
     ent |-> ""]

ReadInit ==
    /\ is_tagged \in BOOLEAN
    /\ is_parsed \in BOOLEAN
    /\ \E h \in Forests(ReadDocLen), lx \in [1..ReadDocLen -> Lexicon] :
          doc = [p \in 1..ReadDocLen |->
                    PipelineToken(p - 1, lx[p], h[p - 1], is_tagged, is_parsed)]
    /\ SUBJ_DEPS = {"nsubj", "nsubjpass"}
    /\ OBJ_DEPS = {"dobj", "attr"}
    /\ AUX_DEPS = {"aux", "auxpass", "neg"}
    /\ pc = "idle"
    /\ result = NoResult
    /\ subjs = <<>>
    /\ objs = <<>>
    /\ scan = 0
    /\ spans = <<>>
    /\ consumed = 0
    /\ span_tuple = <<>>
    /\ doc0 = <<>>
    /\ captures = <<>>

\* A read is called on the document as the pipeline left it or as a
\* merge_spans call left it.  What a call returns depends on the document
\* and the configuration only, never on the call before it, so one read per
\* behaviour stands for a read at that place of any sequence of calls.
CanCall == pc = "idle" /\ (result = NoResult \/ result.op = "merge_spans")

Outcome(op, arg, r) == [op |-> op, arg |-> arg, kind |-> r.kind, val |-> r.val]

\* the token ranges [a, b) of the document, the empty ones too
Slices == {r \in (0..Len(doc)) \X (0..Len(doc)) : r[1] <= r[2]}

call_is_plural_noun ==
    /\ CanCall
    /\ \E p \in 1..Len(doc) :
          result' = Outcome("is_plural_noun", Idx(p), is_plural_noun(doc, is_tagged, p))
    /\ UNCHANGED <<docvars, cfgvars, pc, extvars, mrgvars>>

call_is_negated_verb ==
    /\ CanCall
    /\ \E p \in 1..Len(doc) :
          result' = Outcome("is_negated_verb", Idx(p), is_negated_verb(doc, is_parsed, p))
    /\ UNCHANGED <<docvars, cfgvars, pc, extvars, mrgvars>>

call_preserve_case ==
    /\ CanCall
    /\ \E p \in 1..Len(doc) :
          result' = Outcome("preserve_case", Idx(p), preserve_case(doc, is_tagged, p))
    /\ UNCHANGED <<docvars, cfgvars, pc, extvars, mrgvars>>

\* a slip: the normalised string written back into the token
call_normalized_str_in_place ==
    /\ CanCall
    /\ \E p \in 1..Len(doc) :
          LET r == normalized_str(doc, is_tagged, [type |-> "Token", p |-> p])
          IN  /\ result' = Outcome("normalized_str", Idx(p), r)
              /\ doc' = IF r.kind = "return" THEN [doc EXCEPT ![p].text = r.val]
                        ELSE doc
    /\ UNCHANGED <<is_tagged, is_parsed, cfgvars, pc, extvars, mrgvars>>

call_normalized_str ==
    /\ CanCall
    /\ \/ \E p \in 1..Len(doc) :
             result' = Outcome("normalized_str", Idx(p),
                               normalized_str(doc, is_tagged, [type |-> "Token", p |-> p]))
       \/ \E r \in Slices :
             result' = Outcome("normalized_str", r,
                               normalized_str(doc, is_tagged,
                                   [type |-> "Span", start |-> r[1], end |-> r[2]]))
       \/ result' = Outcome("normalized_str", "other",
                            normalized_str(doc, is_tagged, [type |-> "Other"]))
    /\ UNCHANGED <<docvars, cfgvars, pc, extvars, mrgvars>>

call_get_main_verbs_of_sent ==
    /\ CanCall
    /\ \E r \in Slices :
          result' = Returned("get_main_verbs_of_sent", r,
                             get_main_verbs_of_sent(doc, SpanView(r[1], r[2], "")))
    /\ UNCHANGED <<docvars, cfgvars, pc, extvars, mrgvars>>

call_get_subjects_of_verb ==
    /\ CanCall
    /\ \E v \in 1..Len(doc) :
          result' = Returned("get_subjects_of_verb", Idx(v),
                             get_subjects_of_verb(doc, SUBJ_DEPS, v))
    /\ UNCHANGED <<docvars, cfgvars, pc, extvars, mrgvars>>

call_get_objects_of_verb ==
    /\ CanCall
    /\ \E v \in 1..Len(doc) :
          result' = Returned("get_objects_of_verb", Idx(v),
                             get_objects_of_verb(doc, OBJ_DEPS, v))
    /\ UNCHANGED <<docvars, cfgvars, pc, extvars, mrgvars>>

call_get_conjuncts ==
    /\ CanCall
    /\ \E p \in 1..Len(doc) :
          result' = Returned("_get_conjuncts", Idx(p), Indices(_get_conjuncts(doc, p)))
    /\ UNCHANGED <<docvars, cfgvars, pc, extvars, mrgvars>>

call_get_span_for_compound_noun ==
    /\ CanCall
    /\ \E p \in 1..Len(doc) :
          result' = Returned("get_span_for_compound_noun", Idx(p),
                             get_span_for_compound_noun(doc, p))
    /\ UNCHANGED <<docvars, cfgvars, pc, extvars, mrgvars>>

call_get_span_for_verb_auxiliaries ==
    /\ CanCall
    /\ \E p \in 1..Len(doc) :
          result' = Returned("get_span_for_verb_auxiliaries", Idx(p),
                             get_span_for_verb_auxiliaries(doc, AUX_DEPS, p))
    /\ UNCHANGED <<docvars, cfgvars, pc, extvars, mrgvars>>

call_merge_spans ==
    /\ pc = "idle"
    /\ result = NoResult
    /\ \E r \in Ranges(Len(doc)), t \in Ranges(Len(doc)), two \in BOOLEAN :
          LET b == IF two
                   THEN <<SpanView(r[1], r[2], "ORG"), SpanView(t[1], t[2], "GPE")>>
                   ELSE <<SpanView(r[1], r[2], "ORG")>>
              m == merge_spans(b, doc)
          IN  /\ two => Disjoint(r, t)
              /\ ~two => r = t
              /\ spans' = b
              /\ doc0' = doc
              /\ doc' = m.doc
              /\ result' = Outcome("merge_spans", 0, m.out)
    /\ UNCHANGED <<is_tagged, is_parsed, cfgvars, pc, extvars, consumed,
                   span_tuple, captures>>

ReadNext ==
    \/ call_is_plural_noun
    \/ call_is_negated_verb
    \/ call_preserve_case
    \/ call_normalized_str
    \/ call_get_main_verbs_of_sent
    \/ call_get_subjects_of_verb
    \/ call_get_objects_of_verb
    \/ call_get_conjuncts
    \/ call_get_span_for_compound_noun
    \/ call_get_span_for_verb_auxiliaries
    \/ call_merge_spans

SpecReads == ReadInit /\ [][ReadNext]_vars

----------------------------------------------------------------------------
(* Claims about the readiness flags and about what the operations change *)

PosOps == {"is_plural_noun", "preserve_case", "normalized_str",
           "get_main_verbs_of_sent"}

DepOps == {"is_negated_verb", "get_main_verbs_of_sent", "get_subjects_of_verb",
           "get_objects_of_verb", "_get_conjuncts", "get_span_for_compound_noun",
           "get_span_for_verb_auxiliaries"}

ReadOps == PosOps \cup DepOps

\* C5: every operation that needs part-of-speech data ends in an error when
\* the document is not tagged, and every operation that needs dependency data
\* ends in an error when the document is not parsed; none returns a value on
\* an unannotated document.
C5_UnannotatedDocumentRaises ==
    /\ (result.op \in PosOps /\ ~is_tagged) => result.kind = "raise"
    /\ (result.op \in DepOps /\ ~is_parsed) => result.kind = "raise"

\* C8: every classifier, normalizer, extractor and resolver call, also one
\* that ends in an error, leaves the document (tokens, attributes, heads,
\* readiness flags) unchanged; only merge_spans changes it.
C8_ReadsLeaveDocument ==
    [][ /\ result'.op \in ReadOps => UNCHANGED docvars
        /\ docvars' # docvars => result'.op = "merge_spans" ]_vars

\* a read that ended in an error, called after a merge shortened the document
C8_Witness ==
    /\ result.op = "normalized_str"
    /\ result.kind = "raise"
    /\ doc0 # <<>>
    /\ Len(doc) < Len(doc0)

====
